---- MODULE Spec2Model ----
(***************************************************************************)
(* Stop sign detection and map routing (stop_sign_detection.cpp).          *)
(*                                                                         *)
(* The model follows the three functions of the file:                      *)
(*   detectStopSigns             colour threshold, contours, shape filter  *)
(*   updateRoutingWithStopSigns  proximity matching of signs to map nodes  *)
(*   main                        load, check, detect, annotate, print      *)
(*                                                                         *)
(* Each statement of the code is one action; `pc` is the position of the   *)
(* running code and `ra` the position a called function returns to.        *)
(*                                                                         *)
(* What OpenCV computes from data the model does not hold is taken as an   *)
(* arbitrary result: the HSV pixels cv::cvtColor produces, and the         *)
(* polygons cv::findContours + cv::approxPolyDP produce.  An image is      *)
(* modelled as one row of pixels.  Coordinates of map nodes are doubles in *)
(* the code and integers here.                                             *)
(***************************************************************************)
EXTENDS Integers, Sequences, FiniteSets, TLC

VARIABLES
    pc,             \* position of the running code
    ra,             \* where the running function returns to
    frame,          \* cv::Mat frame: [rows, cols]
    hsv,            \* detectStopSigns: cv::Mat hsv, a row of <<H, S, V>>
    mask1,          \* detectStopSigns: first hue band mask (0 / 255)
    mask2,          \* detectStopSigns: second hue band mask (0 / 255)
    mask,           \* detectStopSigns: combined mask (0 / 255)
    contours,       \* detectStopSigns: the contours, each as approximated
    ci,             \* detectStopSigns: index of the contour loop
    detectedSigns,  \* detectStopSigns: the list being built
    signs,          \* the detection list held by the caller
    route,          \* std::vector<MapNode>
    ni,             \* updateRoutingWithStopSigns: index of the node loop
    si,             \* updateRoutingWithStopSigns: index of the sign loop
    exitCode,       \* <<code>> once main has returned, else << >>
    err,            \* the error condition raised, or "none"
    out,            \* the route lines main printed to std::cout
    done,           \* history: the processing steps that ran to completion
    entry,          \* history: the route as the running annotation got it
    again           \* history: the annotation repeats the previous list

vars == << pc, ra, frame, hsv, mask1, mask2, mask, contours, ci,
           detectedSigns, signs, route, ni, si, exitCode, err, out,
           done, entry, again >>

(***************************************************************************)
(* Bounds of the model.                                                    *)
(***************************************************************************)
MaxCols == 2        \* pixels in the image row
MaxContours == 2    \* contours found in one image
MaxNodes == 2       \* nodes of a route given to the annotator directly
MaxSigns == 2       \* detections given to the annotator directly

(***************************************************************************)
(* Constants of the program.                                               *)
(***************************************************************************)
OctagonVertices == 8
MinArea == 1000
ProximityThreshold == 50
IterationCount == 2

SeqsUpTo(S, n) == UNION { [1..k -> S] : k \in 0..n }

Abs(a) == IF a < 0 THEN -a ELSE a

(***************************************************************************)
(* cv::Mat, as far as the program looks at it.                             *)
(***************************************************************************)
EmptyMat == [rows |-> 0, cols |-> 0]

Total(m) == m.rows * m.cols

\* cv::Mat::empty(): no element
MatEmpty(m) == Total(m) = 0

\* what cv::imread returns: an empty Mat on failure, else a decoded image
LoadedFrames == {EmptyMat} \cup { [rows |-> 1, cols |-> c] : c \in 1..MaxCols }

\* what a caller can hand detectStopSigns: also a Mat with one dimension 0
AnyFrames == LoadedFrames \cup { [rows |-> 0, cols |-> 1], [rows |-> 1, cols |-> 0] }

(***************************************************************************)
(* Red segmentation (lines 42-49).                                         *)
(***************************************************************************)
PixelPool ==
    { <<0, 70, 50>>, <<10, 255, 255>>, <<11, 255, 255>>, <<169, 255, 255>>,
      <<170, 70, 50>>, <<180, 255, 255>>, <<181, 255, 255>>, <<5, 69, 255>>,
      <<5, 255, 49>>, <<175, 69, 255>>, <<175, 255, 49>>, <<90, 200, 200>> }

LowerRed1 == <<0, 70, 50>>
UpperRed1 == <<10, 255, 255>>
LowerRed2 == <<170, 70, 50>>
UpperRed2 == <<180, 255, 255>>

\* cv::inRange on one pixel: 255 when every channel lies in [lo, hi]
InRangePx(px, lo, hi) ==
    IF \A c \in 1..3 : lo[c] <= px[c] /\ px[c] <= hi[c] THEN 255 ELSE 0

InRange(img, lo, hi) == [k \in 1..Len(img) |-> InRangePx(img[k], lo, hi)]

MaskAnd(a, b) == [k \in 1..Len(a) |-> IF a[k] = 255 /\ b[k] = 255 THEN 255 ELSE 0]

\* mask1 | mask2 on masks of 0 / 255
MaskOr(a, b) == [k \in 1..Len(a) |-> IF a[k] = 255 \/ b[k] = 255 THEN 255 ELSE 0]

(***************************************************************************)
(* Morphological cleanup (lines 51-53) on the pixel row: the default 3x3   *)
(* kernel reaches the left and right neighbour; pixels outside the image   *)
(* do not take part.                                                       *)
(***************************************************************************)
Neighbours(m, k) == { j \in {k - 1, k, k + 1} : j >= 1 /\ j <= Len(m) }

ErodeOnce(m) ==
    [k \in 1..Len(m) |-> IF \A j \in Neighbours(m, k) : m[j] = 255 THEN 255 ELSE 0]

DilateOnce(m) ==
    [k \in 1..Len(m) |-> IF \E j \in Neighbours(m, k) : m[j] = 255 THEN 255 ELSE 0]

RECURSIVE Erode(_, _)
Erode(m, n) == IF n = 0 THEN m ELSE Erode(ErodeOnce(m), n - 1)

RECURSIVE Dilate(_, _)
Dilate(m, n) == IF n = 0 THEN m ELSE Dilate(DilateOnce(m), n - 1)

(***************************************************************************)
(* Polygons: sequences of points [x, y].                                   *)
(***************************************************************************)
Pt(x, y) == [x |-> x, y |-> y]

\* a w x h rectangle at (ox, oy) with corners of leg c cut off
Octagon(w, h, c, ox, oy) ==
    << Pt(ox + c, oy), Pt(ox + w - c, oy), Pt(ox + w, oy + c),
       Pt(ox + w, oy + h - c), Pt(ox + w - c, oy + h), Pt(ox + c, oy + h),
       Pt(ox, oy + h - c), Pt(ox, oy + c) >>

Square(w, ox, oy) ==
    << Pt(ox, oy), Pt(ox + w, oy), Pt(ox + w, oy + w), Pt(ox, oy + w) >>

Hexagon(w, h, c, ox, oy) ==
    << Pt(ox + c, oy), Pt(ox + w - c, oy), Pt(ox + w, oy + c),
       Pt(ox + w - c, oy + h), Pt(ox + c, oy + h), Pt(ox, oy + c) >>

Heptagon(w, h, c, ox, oy) == SubSeq(Octagon(w, h, c, ox, oy), 1, 7)

Nonagon(w, h, c, ox, oy) == Append(Octagon(w, h, c, ox, oy), Pt(ox + 1, oy + 1))

\* cv::contourArea, doubled: the absolute value of the shoelace sum
RECURSIVE Shoelace(_, _)
Shoelace(p, k) ==
    IF k > Len(p) THEN 0
    ELSE LET q == p[k]
             r == p[IF k = Len(p) THEN 1 ELSE k + 1]
         IN  q.x * r.y - r.x * q.y + Shoelace(p, k + 1)

ContourAreaTimes2(p) == Abs(Shoelace(p, 1))

Xs(p) == { p[k].x : k \in 1..Len(p) }
Ys(p) == { p[k].y : k \in 1..Len(p) }
MinOf(S) == CHOOSE v \in S : \A w \in S : v <= w
MaxOf(S) == CHOOSE v \in S : \A w \in S : v >= w

\* cv::boundingRect of integer points
BoundingRect(p) ==
    [ x |-> MinOf(Xs(p)), y |-> MinOf(Ys(p)),
      width |-> MaxOf(Xs(p)) - MinOf(Xs(p)) + 1,
      height |-> MaxOf(Ys(p)) - MinOf(Ys(p)) + 1 ]

\* the polygons approxPolyDP is taken to produce
ContourPool ==
    { Octagon(40, 40, 10, 110, 160),    \* area 1400
      Octagon(40, 30, 10, 130, 190),    \* area 1000
      Octagon(41, 30, 10, 135, 185),    \* area 1030
      Octagon(20, 20, 5, 100, 150),     \* area 350
      Octagon(40, 40, 10, 230, 290),    \* area 1400
      Square(40, 100, 150),
      Hexagon(60, 40, 10, 100, 150),
      Heptagon(40, 40, 10, 110, 160),
      Nonagon(40, 40, 10, 110, 160) }

IsStopSignShapeAtLeast(approx) ==
    Len(approx) = OctagonVertices /\ ContourAreaTimes2(approx) >= 2 * MinArea

\* line 66: approx.size() == 8 && cv::contourArea(approx) > 1000
IsStopSignShape(approx) ==
    Len(approx) = OctagonVertices /\ ContourAreaTimes2(approx) > 2 * MinArea

\* lines 68-76: struct DetectedStopSign filled from the polygon
MakeSign(approx) == [boundingBox |-> BoundingRect(approx), contour |-> approx]

(***************************************************************************)
(* Route annotation (lines 88-125).                                        *)
(***************************************************************************)
MapNode(x, y, hasStop) == [x |-> x, y |-> y, hasStop |-> hasStop]

\* lines 146-151: the route main builds
SampleRoute ==
    << MapNode(100, 150, FALSE), MapNode(200, 250, FALSE), MapNode(300, 350, FALSE) >>

\* nodes of the routes given to the annotator directly
NodePool ==
    { MapNode(p[1], p[2], b) :
        p \in { <<100, 150>>, <<200, 250>>, <<140, 190>> }, b \in BOOLEAN }

\* detections given to the annotator directly, by the corner of their box
SignPool ==
    { MakeSign(Octagon(40, 40, 10, p[1], p[2])) :
        p \in { <<110, 160>>, <<130, 190>>, <<215, 285>> } }

\* the largest r with r * r <= s, for lo * lo <= s < hi * hi
RECURSIVE SqrtBetween(_, _, _)
SqrtBetween(s, lo, hi) ==
    IF hi - lo <= 1 THEN lo
    ELSE LET mid == (lo + hi) \div 2
         IN  IF mid * mid <= s THEN SqrtBetween(s, mid, hi)
             ELSE SqrtBetween(s, lo, mid)

\* std::sqrt, rounded down to a whole number: the comparison with the whole
\* number 50 comes out as for the exact root
SqrtFloor(s) == SqrtBetween(s, 0, s + 1)

\* lines 115-117
Distance(node, sign) ==
    LET dx == node.x - sign.boundingBox.x
        dy == node.y - sign.boundingBox.y
    IN  SqrtFloor(dx * dx + dy * dy)

IsCloseOrEqual(node, sign) == Distance(node, sign) <= ProximityThreshold

\* line 120: distance < 50.0
IsClose(node, sign) == Distance(node, sign) < ProximityThreshold

VisitSignAssign(node, sign) == [node EXCEPT !.hasStop = IsClose(node, sign)]

VisitSignToggle(node, sign) ==
    IF IsClose(node, sign) THEN [node EXCEPT !.hasStop = ~node.hasStop] ELSE node

VisitSignSnap(node, sign) ==
    IF IsClose(node, sign)
    THEN [node EXCEPT !.hasStop = TRUE, !.x = sign.boundingBox.x, !.y = sign.boundingBox.y]
    ELSE node

\* lines 115-122: the body of the inner loop, for one node and one sign
VisitSign(node, sign) ==
    IF IsClose(node, sign) THEN [node EXCEPT !.hasStop = TRUE] ELSE node

\* lines 112-123: the inner loop over signs[k..] for one node
RECURSIVE VisitSigns(_, _, _)
VisitSigns(node, sgs, k) ==
    IF k > Len(sgs) THEN node
    ELSE VisitSigns(VisitSign(node, sgs[k]), sgs, k + 1)

\* lines 105-125 as a function of its arguments: the route on return
UpdatedRoute(rt, sgs) == [n \in 1..Len(rt) |-> VisitSigns(rt[n], sgs, 1)]

(***************************************************************************)
(* detectStopSigns (lines 34-82), one action per statement.                *)
(***************************************************************************)
DetectVars == << hsv, mask1, mask2, mask, contours, ci, detectedSigns >>
UpdateVars == << route, ni, si, entry, again >>

\* line 36
DetectEntry ==
    /\ pc = "detect_entry"
    /\ detectedSigns' = << >>
    /\ pc' = "cvtColor"
    /\ UNCHANGED << ra, frame, hsv, mask1, mask2, mask, contours, ci, signs,
                    route, ni, si, exitCode, err, out, done, entry, again >>

\* line 40, on an image with pixels: any HSV content
CvtColor ==
    /\ pc = "cvtColor"
    /\ ~MatEmpty(frame)
    /\ hsv' \in [1..Total(frame) -> PixelPool]
    /\ done' = done \cup {"cvtColor"}
    /\ pc' = "inRange1"
    /\ UNCHANGED << ra, frame, mask1, mask2, mask, contours, ci, detectedSigns,
                    signs, route, ni, si, exitCode, err, out, entry, again >>

\* line 40, on an image without pixels: cv::cvtColor raises cv::Exception,
\* which leaves detectStopSigns
CvtColorThrows ==
    /\ pc = "cvtColor"
    /\ MatEmpty(frame)
    /\ err' = "cv::Exception"
    /\ pc' = "thrown"
    /\ UNCHANGED << ra, frame, DetectVars, signs, UpdateVars, exitCode, out, done >>

\* line 45
InRange1 ==
    /\ pc = "inRange1"
    /\ mask1' = InRange(hsv, LowerRed1, UpperRed1)
    /\ pc' = "inRange2"
    /\ UNCHANGED << ra, frame, hsv, mask2, mask, contours, ci, detectedSigns,
                    signs, UpdateVars, exitCode, err, out, done >>

\* line 46
InRange2 ==
    /\ pc = "inRange2"
    /\ mask2' = InRange(hsv, LowerRed2, UpperRed2)
    /\ pc' = "combine"
    /\ UNCHANGED << ra, frame, hsv, mask1, mask, contours, ci, detectedSigns,
                    signs, UpdateVars, exitCode, err, out, done >>

\* line 49
CombineMasks ==
    /\ pc = "combine"
    /\ mask' = MaskOr(mask1, mask2)
    /\ done' = done \cup {"threshold"}
    /\ pc' = "erode"
    /\ UNCHANGED << ra, frame, hsv, mask1, mask2, contours, ci, detectedSigns,
                    signs, UpdateVars, exitCode, err, out >>

\* line 52
ErodeMask ==
    /\ pc = "erode"
    /\ mask' = Erode(mask, IterationCount)
    /\ pc' = "dilate"
    /\ UNCHANGED << ra, frame, hsv, mask1, mask2, contours, ci, detectedSigns,
                    signs, UpdateVars, exitCode, err, out, done >>

\* line 53
DilateMask ==
    /\ pc = "dilate"
    /\ mask' = Dilate(mask, IterationCount)
    /\ done' = done \cup {"cleanup"}
    /\ pc' = "findContours"
    /\ UNCHANGED << ra, frame, hsv, mask1, mask2, contours, ci, detectedSigns,
                    signs, UpdateVars, exitCode, err, out >>

\* lines 56-57 and 61-63: a mask without foreground has no contour; any
\* other mask has any list of contours, each held as its approximation
FindContours ==
    /\ pc = "findContours"
    /\ contours' \in IF \A k \in 1..Len(mask) : mask[k] = 0
                     THEN { << >> }
                     ELSE SeqsUpTo(ContourPool, MaxContours)
    /\ ci' = 1
    /\ done' = done \cup {"contours"}
    /\ pc' = "contour_loop"
    /\ UNCHANGED << ra, frame, hsv, mask1, mask2, mask, detectedSigns,
                    signs, UpdateVars, exitCode, err, out >>

\* lines 59-79: one pass of the loop over the contours, or its end
ContourLoop ==
    /\ pc = "contour_loop"
    /\ IF ci <= Len(contours)
       THEN /\ detectedSigns' =
                  IF IsStopSignShape(contours[ci])
                  THEN Append(detectedSigns, MakeSign(contours[ci]))
                  ELSE detectedSigns
            /\ ci' = ci + 1
            /\ pc' = pc
       ELSE /\ pc' = "detect_return"
            /\ UNCHANGED << ci, detectedSigns >>
    /\ UNCHANGED << ra, frame, hsv, mask1, mask2, mask, contours,
                    signs, UpdateVars, exitCode, err, out, done >>

\* line 81: the list goes to the caller, the locals end
DetectReturn ==
    /\ pc = "detect_return"
    /\ signs' = detectedSigns
    /\ hsv' = << >>
    /\ mask1' = << >>
    /\ mask2' = << >>
    /\ mask' = << >>
    /\ contours' = << >>
    /\ ci' = 0
    /\ detectedSigns' = << >>
    /\ done' = done \cup {"detect"}
    /\ pc' = ra
    /\ UNCHANGED << ra, frame, UpdateVars, exitCode, err, out >>

(***************************************************************************)
(* updateRoutingWithStopSigns (lines 105-125).                             *)
(***************************************************************************)
UpdateOuterReset ==
    /\ pc = "update_outer"
    /\ IF ni <= Len(route)
       THEN /\ route' = [route EXCEPT ![ni].hasStop = FALSE]
            /\ si' = 1
            /\ pc' = "update_inner"
       ELSE /\ pc' = "update_return"
            /\ UNCHANGED << route, si >>
    /\ UNCHANGED << ra, frame, DetectVars, signs, ni, exitCode, err, out,
                    done, entry, again >>

\* line 110: the loop over the nodes takes the next node, or ends
UpdateOuter ==
    /\ pc = "update_outer"
    /\ IF ni <= Len(route)
       THEN /\ si' = 1
            /\ pc' = "update_inner"
       ELSE /\ si' = si
            /\ pc' = "update_return"
    /\ UNCHANGED << ra, frame, DetectVars, signs, route, ni, exitCode, err,
                    out, done, entry, again >>

\* lines 112-123: one pass of the loop over the signs, or its end
UpdateInner ==
    /\ pc = "update_inner"
    /\ IF si <= Len(signs)
       THEN /\ route' = [route EXCEPT ![ni] = VisitSign(@, signs[si])]
            /\ si' = si + 1
            /\ UNCHANGED << ni, pc >>
       ELSE /\ ni' = ni + 1
            /\ pc' = "update_outer"
            /\ UNCHANGED << route, si >>
    /\ UNCHANGED << ra, frame, DetectVars, signs, exitCode, err, out,
                    done, entry, again >>

\* line 125
UpdateReturn ==
    /\ pc = "update_return"
    /\ ni' = 0
    /\ si' = 0
    /\ done' = done \cup {"update"}
    /\ pc' = ra
    /\ UNCHANGED << ra, frame, DetectVars, signs, route, exitCode, err, out,
                    entry, again >>

(***************************************************************************)
(* main (lines 133-172).                                                   *)
(***************************************************************************)
\* line 136
Imread ==
    /\ pc = "imread"
    /\ frame' \in LoadedFrames
    /\ pc' = "check"
    /\ UNCHANGED << ra, DetectVars, signs, UpdateVars, exitCode, err, out, done >>

\* lines 137-140
MainRejectFrame ==
    /\ pc = "check"
    /\ MatEmpty(frame)
    /\ err' = "Error loading image"
    /\ exitCode' = << -1 >>
    /\ pc' = "exit"
    /\ UNCHANGED << ra, frame, DetectVars, signs, UpdateVars, out, done >>

MainCallDetectUnchecked ==
    /\ pc = "check"
    /\ ra' = "build_route"
    /\ pc' = "detect_entry"
    /\ UNCHANGED << frame, DetectVars, signs, UpdateVars, exitCode, err, out, done >>

\* lines 137 and 143: the call
MainCallDetect ==
    /\ pc = "check"
    /\ ~MatEmpty(frame)
    /\ ra' = "build_route"
    /\ pc' = "detect_entry"
    /\ UNCHANGED << frame, DetectVars, signs, UpdateVars, exitCode, err, out, done >>

BuildRouteThenPrint ==
    /\ pc = "build_route"
    /\ route' = SampleRoute
    /\ pc' = "print"
    /\ UNCHANGED << ra, frame, DetectVars, signs, ni, si, exitCode, err, out,
                    done, entry, again >>

\* lines 146-151
BuildRoute ==
    /\ pc = "build_route"
    /\ route' = SampleRoute
    /\ pc' = "call_update"
    /\ UNCHANGED << ra, frame, DetectVars, signs, ni, si, exitCode, err, out,
                    done, entry, again >>

\* line 154: the call
MainCallUpdate ==
    /\ pc = "call_update"
    /\ entry' = route
    /\ again' = FALSE
    /\ ni' = 1
    /\ ra' = "print"
    /\ pc' = "update_outer"
    /\ UNCHANGED << frame, DetectVars, signs, route, si, exitCode, err, out, done >>

\* lines 157-161
PrintRoute ==
    /\ pc = "print"
    /\ out' = [i \in 1..Len(route) |-> << i - 1, route[i].x, route[i].y, route[i].hasStop >>]
    /\ done' = done \cup {"print"}
    /\ pc' = "show"
    /\ UNCHANGED << ra, frame, DetectVars, signs, UpdateVars, exitCode, err >>

\* lines 164-168: drawing on the frame and showing it changes no state here
ShowWindow ==
    /\ pc = "show"
    /\ pc' = "waitKey"
    /\ UNCHANGED << ra, frame, DetectVars, signs, UpdateVars, exitCode, err, out, done >>

\* lines 169-171: a key is pressed, main returns 0
WaitKeyReturn ==
    /\ pc = "waitKey"
    /\ exitCode' = << 0 >>
    /\ pc' = "exit"
    /\ UNCHANGED << ra, frame, DetectVars, signs, UpdateVars, err, out, done >>

(***************************************************************************)
(* Direct callers of the two functions.                                    *)
(***************************************************************************)
\* a caller hands updateRoutingWithStopSigns its route and any detections
CallUpdate ==
    /\ pc = "idle"
    /\ signs' \in SeqsUpTo(SignPool, MaxSigns)
    /\ entry' = route
    /\ again' = FALSE
    /\ ni' = 1
    /\ ra' = "idle"
    /\ pc' = "update_outer"
    /\ UNCHANGED << frame, DetectVars, route, si, exitCode, err, out, done >>

\* the caller repeats its previous call, with the same detections
CallUpdateAgain ==
    /\ pc = "idle"
    /\ "update" \in done
    /\ entry' = route
    /\ again' = TRUE
    /\ ni' = 1
    /\ ra' = "idle"
    /\ pc' = "update_outer"
    /\ UNCHANGED << frame, DetectVars, signs, route, si, exitCode, err, out, done >>

Blank ==
    /\ ra = "none"
    /\ frame = EmptyMat
    /\ hsv = << >>
    /\ mask1 = << >>
    /\ mask2 = << >>
    /\ mask = << >>
    /\ contours = << >>
    /\ ci = 0
    /\ detectedSigns = << >>
    /\ signs = << >>
    /\ route = << >>
    /\ ni = 0
    /\ si = 0
    /\ exitCode = << >>
    /\ err = "none"
    /\ out = << >>
    /\ done = {}
    /\ entry = << >>
    /\ again = FALSE

\* the program starts
Init == pc = "imread" /\ Blank

\* detectStopSigns is called with any frame
InitDetect ==
    /\ pc = "detect_entry"
    /\ ra = "caller"
    /\ frame \in AnyFrames
    /\ hsv = << >> /\ mask1 = << >> /\ mask2 = << >> /\ mask = << >>
    /\ contours = << >> /\ ci = 0 /\ detectedSigns = << >> /\ signs = << >>
    /\ route = << >> /\ ni = 0 /\ si = 0 /\ exitCode = << >> /\ err = "none"
    /\ out = << >> /\ done = {} /\ entry = << >> /\ again = FALSE

\* updateRoutingWithStopSigns is called with any route
InitRoute ==
    /\ pc = "idle"
    /\ ra = "idle"
    /\ frame = EmptyMat
    /\ hsv = << >> /\ mask1 = << >> /\ mask2 = << >> /\ mask = << >>
    /\ contours = << >> /\ ci = 0 /\ detectedSigns = << >> /\ signs = << >>
    /\ route \in SeqsUpTo(NodePool, MaxNodes)
    /\ ni = 0 /\ si = 0 /\ exitCode = << >> /\ err = "none"
    /\ out = << >> /\ done = {} /\ entry = route /\ again = FALSE

DetectNext ==
    \/ DetectEntry
    \/ CvtColor
    \/ InRange1
    \/ InRange2
    \/ CombineMasks
    \/ ErodeMask
    \/ DilateMask
    \/ FindContours
    \/ ContourLoop
    \/ DetectReturn

UpdateNext ==
    \/ UpdateOuter
    \/ UpdateInner
    \/ UpdateReturn

MainNext ==
    \/ Imread
    \/ MainRejectFrame
    \/ MainCallDetect
    \/ BuildRoute
    \/ MainCallUpdate
    \/ PrintRoute
    \/ ShowWindow
    \/ WaitKeyReturn

Next == MainNext \/ DetectNext \/ UpdateNext

\* the program
Spec == Init /\ [][Next]_vars

\* the program, and detectStopSigns called directly
SpecDetect == (Init \/ InitDetect) /\ [][Next \/ CvtColorThrows]_vars

\* the program, and updateRoutingWithStopSigns called directly
SpecRoute == (Init \/ InitRoute) /\ [][Next \/ CallUpdate \/ CallUpdateAgain]_vars

(***************************************************************************)
(* Properties.                                                             *)
(***************************************************************************)
UpdatePcs == {"update_outer", "update_inner", "update_return"}

\* the loops of updateRoutingWithStopSigns have ended
UpdateOver == pc = "update_return"

\* the squared distance of a node from the corner of a detection's box
SquaredDistance(node, sign) ==
    (node.x - sign.boundingBox.x) * (node.x - sign.boundingBox.x)
        + (node.y - sign.boundingBox.y) * (node.y - sign.boundingBox.y)

\* C1: when updateRoutingWithStopSigns returns on a route whose flags were
\* all false on entry, a node's flag is true exactly when some detection's
\* box corner lies at a squared distance below 2500 (distance below 50)
\* from the node; the sample route with one sign at (110, 160) comes out
\* as true, false, false.
C1_ProximityMatch ==
    (UpdateOver /\ \A n \in 1..Len(entry) : ~entry[n].hasStop) =>
        /\ Len(route) = Len(entry)
        /\ \A n \in 1..Len(entry) :
              route[n].hasStop <=>
                  \E k \in 1..Len(signs) : SquaredDistance(entry[n], signs[k]) < 2500
        /\ ( /\ entry = SampleRoute
             /\ Len(signs) = 1
             /\ signs[1].boundingBox.x = 110
             /\ signs[1].boundingBox.y = 160 ) =>
                 [n \in 1..3 |-> route[n].hasStop] = << TRUE, FALSE, FALSE >>

C1_Witness ==
    /\ UpdateOver
    /\ entry = SampleRoute
    /\ Len(signs) = 2
    /\ signs[1].boundingBox.x = 230 /\ signs[1].boundingBox.y = 290
    /\ signs[2].boundingBox.x = 110 /\ signs[2].boundingBox.y = 160
    /\ route[1].hasStop /\ ~route[2].hasStop /\ ~route[3].hasStop

\* C2: no step clears a flag: a node whose hasStop is true before a step
\* is still there, with hasStop true, after it.
C2_Monotonic ==
    [][\A n \in 1..Len(route) :
           route[n].hasStop => (n <= Len(route') /\ route'[n].hasStop)]_vars

C2_Witness ==
    /\ pc = "update_inner"
    /\ si > 1
    /\ entry[ni].hasStop
    /\ route[ni].hasStop
    /\ ~IsClose(route[ni], signs[si - 1])

\* C3: a call of updateRoutingWithStopSigns that repeats the previous call
\* with the same detection list returns the route as it got it.
C3_Idempotent == (UpdateOver /\ again) => route = entry

C3_Witness ==
    /\ UpdateOver
    /\ again
    /\ \E n \in 1..Len(route) : \E k \in 1..Len(signs) : IsClose(route[n], signs[k])

\* C4: with an image without pixels no processing step ever runs and no
\* detection list reaches the caller: main ends with the load error and
\* exit code -1 without calling detectStopSigns, and detectStopSigns called
\* directly is left by the error of its first step.
C4_InvalidImage ==
    (Total(frame) = 0 /\ pc # "imread") =>
        /\ done = {}
        /\ signs = << >>
        /\ hsv = << >>
        /\ ra # "caller" => pc \in {"check", "exit"}
        /\ pc \notin {"check", "detect_entry", "cvtColor"} =>
              /\ err # "none"
              /\ pc \in {"exit", "thrown"}
              /\ pc = "exit" => exitCode = << -1 >>

C4_Witness ==
    /\ pc = "exit"
    /\ Total(frame) = 0
    /\ err = "Error loading image"
    /\ exitCode = << -1 >>

C5_Accepted(approx) == Len(approx) = 8 /\ ContourAreaTimes2(approx) > 2000

\* C5: the list detectStopSigns builds holds, in the order of the contours,
\* one detection for each contour visited so far whose polygon has 8
\* vertices and an area above 1000, and nothing else; every detection has
\* an 8-vertex polygon.
C5_ShapeFilter ==
    /\ pc \in {"contour_loop", "detect_return"} =>
          /\ [k \in 1..Len(detectedSigns) |-> detectedSigns[k].contour]
                 = SelectSeq(SubSeq(contours, 1, ci - 1), C5_Accepted)
          /\ pc = "detect_return" => ci = Len(contours) + 1
    /\ \A k \in 1..Len(detectedSigns) : Len(detectedSigns[k].contour) = 8
    /\ \A k \in 1..Len(signs) : Len(signs[k].contour) = 8

C5_Witness ==
    /\ pc = "detect_return"
    /\ Len(contours) = 2
    /\ Len(contours[1]) = 8 /\ ContourAreaTimes2(contours[1]) = 2000
    /\ Len(contours[2]) = 8 /\ ContourAreaTimes2(contours[2]) > 2000
    /\ Len(detectedSigns) = 1
    /\ detectedSigns[1].contour = contours[2]

\* C6: updateRoutingWithStopSigns changes nothing but flags: none of its
\* steps changes the detection list, the length of the route, or the x or
\* y of a node.
C6_Frame ==
    [][(\A n \in 1..Len(route) :
            pc \in UpdatePcs =>
                (n <= Len(route') /\ route'[n].x = route[n].x /\ route'[n].y = route[n].y))
       /\ (pc \in UpdatePcs => (signs' = signs /\ Len(route') = Len(route)))]_vars

C6_Witness ==
    /\ UpdateOver
    /\ Len(route) = 2
    /\ ~entry[1].hasStop /\ route[1].hasStop
    /\ route[1].x = entry[1].x /\ route[1].y = entry[1].y

\* C7: with an empty detection list updateRoutingWithStopSigns leaves every
\* flag as it was on entry; with an empty route it goes straight to its
\* return, changing nothing and raising no error.
C7_EmptyInputs ==
    /\ (pc \in UpdatePcs /\ signs = << >>) => (route = entry /\ err = "none")
    /\ (pc \in UpdatePcs /\ entry = << >>) =>
          /\ route = << >>
          /\ err = "none"
          /\ pc \in {"update_outer", "update_return"}
          /\ ENABLED (UpdateOuter \/ UpdateReturn)

C7_Witness ==
    /\ UpdateOver
    /\ signs = << >>
    /\ Len(route) = 2
    /\ route[1].hasStop /\ ~route[2].hasStop

\* C8: before the morphological cleanup a pixel is foreground in the
\* combined mask exactly when its hue is in [0, 10] or [170, 180], its
\* saturation in [70, 255] and its value in [50, 255]; the combined mask
\* is the pixelwise OR of the two band masks.
C8_RedSegmentation ==
    pc = "erode" =>
        /\ Len(mask) = Len(hsv)
        /\ \A k \in 1..Len(hsv) :
              LET H == hsv[k][1]
                  S == hsv[k][2]
                  V == hsv[k][3]
              IN  /\ mask[k] \in {0, 255}
                  /\ mask[k] = 255 <=>
                        /\ (0 <= H /\ H <= 10) \/ (170 <= H /\ H <= 180)
                        /\ 70 <= S /\ S <= 255
                        /\ 50 <= V /\ V <= 255
                  /\ mask[k] = 255 <=> (mask1[k] = 255 \/ mask2[k] = 255)

C8_Witness ==
    /\ pc = "erode"
    /\ Len(hsv) = 2
    /\ hsv[1] = << 180, 255, 255 >> /\ mask[1] = 255
    /\ hsv[2] = << 5, 69, 255 >> /\ mask[2] = 0

\* C9: in main the annotation runs only after detectStopSigns has returned,
\* the route is printed only after the annotation has returned; with an
\* empty image main ends with exit code -1 and none of the three happens;
\* with any other image main cannot stop before it has done all three and
\* ends with exit code 0.
C9_Pipeline ==
    /\ pc \in UpdatePcs => ("detect" \in done /\ hsv = << >> /\ contours = << >>)
    /\ "update" \in done => "detect" \in done
    /\ "print" \in done => "update" \in done
    /\ out # << >> => "print" \in done
    /\ (MatEmpty(frame) /\ pc \notin {"imread", "check"}) =>
          (pc = "exit" /\ exitCode = << -1 >> /\ done = {} /\ out = << >>)
    /\ exitCode # << >> <=> pc = "exit"
    /\ (pc = "exit" /\ ~MatEmpty(frame)) =>
          (exitCode = << 0 >> /\ {"detect", "update", "print"} \subseteq done)
    /\ pc # "exit" => ENABLED Next

C9_Witness ==
    /\ pc = "exit"
    /\ exitCode = << 0 >>
    /\ signs = << >>
    /\ Len(out) = 3
    /\ \A i \in 1..3 : out[i][4] = FALSE

Subsequence(sq, idx) ==
    LET F[k \in 0..Len(sq)] ==
            IF k = 0 THEN << >>
            ELSE IF k \in idx THEN Append(F[k - 1], sq[k]) ELSE F[k - 1]
    IN  F[Len(sq)]

\* C10: the route updateRoutingWithStopSigns returns is the one it returns
\* for the detection list in any other order, and the one two successive
\* calls return for any split of the list, in either order; a node's flag
\* is the one the node gets as the only node of a route.
C10_OrderIndependent ==
    UpdateOver =>
        /\ \A p \in Permutations(1..Len(signs)) :
              UpdatedRoute(entry, [k \in 1..Len(signs) |-> signs[p[k]]]) = route
        /\ \A idx \in SUBSET (1..Len(signs)) :
              LET a == Subsequence(signs, idx)
                  b == Subsequence(signs, (1..Len(signs)) \ idx)
              IN  UpdatedRoute(UpdatedRoute(entry, a), b) = route
        /\ \A n \in 1..Len(entry) :
              UpdatedRoute(<< entry[n] >>, signs) = << route[n] >>

C10_Witness ==
    /\ UpdateOver
    /\ Len(signs) = 2
    /\ Len(route) = 2
    /\ entry[1] = entry[2]
    /\ ~entry[1].hasStop
    /\ IsClose(entry[1], signs[1])
    /\ ~IsClose(entry[1], signs[2])
    /\ route[1].hasStop /\ route[2].hasStop

====
